---- MODULE Spec2Model ----
(***************************************************************************)
(* A model of the two contracts of near-mezze/NFT:                         *)
(*   - the token registry with escrow delegation                           *)
(*     (src/src/nep141-basic/assembly/index_old.ts), and                   *)
(*   - the NEP-141 balance ledger (src/unnamed/part_000, lines 1-219).     *)
(* Every invocation is one atomic step: a failed assert aborts the         *)
(* invocation and none of its writes persist.  The variable `call` holds   *)
(* the last invocation: its caller, its arguments and its outcome.         *)
(***************************************************************************)
EXTENDS Integers, FiniteSets, Sequences, TLC

VARIABLES
  tokenToOwner,   \* PersistentMap<TokenId, AccountId>('a')
  escrowAccess,   \* PersistentMap<AccountId, AccountId>('b')
  storage,        \* the contract's primitive storage (key TOTAL_SUPPLY)
  balances,       \* the ledger's PersistentMap of balances
  promises,       \* the cross-contract calls the ledger has scheduled
  minted,         \* history: the number of mint_to calls that succeeded
  call            \* the last invocation and its outcome

vars == <<tokenToOwner, escrowAccess, storage, balances, promises, minted, call>>

nftVars == <<tokenToOwner, escrowAccess, storage, minted>>
ftVars == <<balances, promises>>

(***************************************************************************)
(* Bounds of the model.                                                    *)
(***************************************************************************)
\* mint_to calls explored in the registry's full specification
MaxMints == 2
\* mint_to calls explored in the mint-only specification
MaxMintRun == 11
\* largest amount passed to ft_transfer / ft_transfer_call / ft_resolve_transfer
MaxAmount == 2
\* largest sum of balances explored (the ledger starts with MAX_SUPPLY issued)
MaxTotal == 12

(***************************************************************************)
(* Program constants.                                                      *)
(***************************************************************************)
MAX_SUPPLY == 10
TOTAL_SUPPLY == "c"
\* deposits are counted in units of the expected deposit, toYocto(1)
EXPECTED_DEPOSIT == 1

ERROR_CALLER_ID_DOES_NOT_MATCH_EXPECTATION == "Caller ID does not match expectation"
ERROR_MAXIMUM_TOKEN_LIMIT_REACHED == "Maximum token limit reached"
ERROR_OWNER_ID_DOES_NOT_MATCH_EXPECTATION == "Owner id does not match real token owner id"
ERROR_TOKEN_NOT_OWNED_BY_CALLER == "Token is not owned by the caller. Please use transfer_from for this scenario"
ERROR_INSUFFICIENT_FUNDS == "Sender does not have sufficient funds for this transaction."
ERROR_DEPOSIT_DOES_NOT_MATCH_EXPECTATION == "Attached deposit must be EXACTLY 1 yocto."
\* PersistentMap.getSome on a key that is not in the map aborts the invocation
ERROR_KEY_NOT_FOUND == "key not found"

OK == "ok"
NULL == "null"

alice == "alice"
bob == "bob"
carol == "carol"
Accounts == {alice, bob, carol}

(***************************************************************************)
(* near-sdk-as collections, as the contracts use them.                     *)
(***************************************************************************)
EmptyMap == [k \in {} |-> NULL]
MapContains(m, k) == k \in DOMAIN m
MapGet(m, k) == IF k \in DOMAIN m THEN m[k] ELSE NULL
MapGetOr(m, k, default) == IF k \in DOMAIN m THEN m[k] ELSE default
MapSet(m, k, v) == [x \in DOMAIN m \cup {k} |-> IF x = k THEN v ELSE m[x]]
MapDelete(m, k) == [x \in DOMAIN m \ {k} |-> m[x]]
getPrimitive(key, default) == MapGetOr(storage, key, default)

(***************************************************************************)
(* mint_to declares `const tokenId` and never assigns it: the identifier   *)
(* it stores and returns is an uninitialised u64.  The model draws it from *)
(* the values below: 0, what a zero-initialised local holds, and           *)
(* MAX_SUPPLY, which stands for every value that takes the stored counter, *)
(* tokenId + 1, past the limit.                                            *)
(***************************************************************************)
UninitTokenIds == {0, MAX_SUPPLY}
TokenIds == UninitTokenIds

Init ==
  /\ tokenToOwner = EmptyMap
  /\ escrowAccess = EmptyMap
  /\ storage = EmptyMap
  /\ balances = EmptyMap
  /\ promises = {}
  /\ minted = 0
  /\ call = [op |-> "init"]

(***************************************************************************)
(* The token registry: index_old.ts                                        *)
(***************************************************************************)
\* a grant that keeps the escrow the caller already has
grant_access_keeps_first(predecessor, escrow_account_id) ==
  /\ escrowAccess' = IF MapContains(escrowAccess, predecessor) THEN escrowAccess
                     ELSE MapSet(escrowAccess, predecessor, escrow_account_id)
  /\ call' = [op |-> "grant_access", predecessor |-> predecessor,
              escrow_account_id |-> escrow_account_id, err |-> OK,
              replaced |-> MapGet(escrowAccess, predecessor)]
  /\ UNCHANGED <<tokenToOwner, storage, minted, ftVars>>

\* `replaced` keeps the escrow the caller had when it called (NULL for none)
grant_access(predecessor, escrow_account_id) ==
  /\ escrowAccess' = MapSet(escrowAccess, predecessor, escrow_account_id)
  /\ call' = [op |-> "grant_access", predecessor |-> predecessor,
              escrow_account_id |-> escrow_account_id, err |-> OK,
              replaced |-> MapGet(escrowAccess, predecessor)]
  /\ UNCHANGED <<tokenToOwner, storage, minted, ftVars>>

\* a revoke that leaves the record in place
revoke_access_keeps_record(predecessor, escrow_account_id) ==
  /\ escrowAccess' = escrowAccess
  /\ call' = [op |-> "revoke_access", predecessor |-> predecessor,
              escrow_account_id |-> escrow_account_id, err |-> OK,
              revoked |-> MapGet(escrowAccess, predecessor)]
  /\ UNCHANGED <<tokenToOwner, storage, minted, ftVars>>

\* `revoked` keeps the escrow the caller had when it called (NULL for none)
revoke_access(predecessor, escrow_account_id) ==
  /\ escrowAccess' = MapDelete(escrowAccess, predecessor)
  /\ call' = [op |-> "revoke_access", predecessor |-> predecessor,
              escrow_account_id |-> escrow_account_id, err |-> OK,
              revoked |-> MapGet(escrowAccess, predecessor)]
  /\ UNCHANGED <<tokenToOwner, storage, minted, ftVars>>

\* the asserts of transfer_from, in the order the code makes them
transfer_from_err(predecessor, owner_id, token_id) ==
  IF ~MapContains(tokenToOwner, token_id) THEN ERROR_KEY_NOT_FOUND
  ELSE LET owner == tokenToOwner[token_id]
           escrow == MapGet(escrowAccess, owner)
       IN IF owner # owner_id THEN ERROR_OWNER_ID_DOES_NOT_MATCH_EXPECTATION
          ELSE IF predecessor \notin {owner, escrow}
               THEN ERROR_CALLER_ID_DOES_NOT_MATCH_EXPECTATION
               ELSE OK

\* a transfer_from that also clears the previous owner's escrow
transfer_from_clears_escrow(predecessor, owner_id, new_owner_id, token_id) ==
  LET err == transfer_from_err(predecessor, owner_id, token_id) IN
  /\ tokenToOwner' = IF err = OK THEN MapSet(tokenToOwner, token_id, new_owner_id)
                                 ELSE tokenToOwner
  /\ escrowAccess' = IF err = OK THEN MapDelete(escrowAccess, owner_id)
                                 ELSE escrowAccess
  /\ call' = [op |-> "transfer_from", predecessor |-> predecessor,
              owner_id |-> owner_id, new_owner_id |-> new_owner_id,
              token_id |-> token_id, err |-> err]
  /\ UNCHANGED <<storage, minted, ftVars>>

transfer_from(predecessor, owner_id, new_owner_id, token_id) ==
  LET err == transfer_from_err(predecessor, owner_id, token_id) IN
  /\ tokenToOwner' = IF err = OK THEN MapSet(tokenToOwner, token_id, new_owner_id)
                                 ELSE tokenToOwner
  /\ call' = [op |-> "transfer_from", predecessor |-> predecessor,
              owner_id |-> owner_id, new_owner_id |-> new_owner_id,
              token_id |-> token_id, err |-> err]
  /\ UNCHANGED <<escrowAccess, storage, minted, ftVars>>

\* a transfer that also lets the owner's escrow through
transfer_err_escrow_allowed(predecessor, token_id) ==
  IF ~MapContains(tokenToOwner, token_id) THEN ERROR_KEY_NOT_FOUND
  ELSE IF predecessor \notin {tokenToOwner[token_id],
                              MapGet(escrowAccess, tokenToOwner[token_id])}
       THEN ERROR_TOKEN_NOT_OWNED_BY_CALLER
       ELSE OK

\* transfer is exported by the assembly (the tests import it) but its code is
\* not in the sources: modelled from the specification's section 4.1
transfer_err(predecessor, token_id) ==
  IF ~MapContains(tokenToOwner, token_id) THEN ERROR_KEY_NOT_FOUND
  ELSE IF tokenToOwner[token_id] # predecessor THEN ERROR_TOKEN_NOT_OWNED_BY_CALLER
       ELSE OK

transfer(predecessor, new_owner_id, token_id) ==
  LET err == transfer_err(predecessor, token_id) IN
  /\ tokenToOwner' = IF err = OK THEN MapSet(tokenToOwner, token_id, new_owner_id)
                                 ELSE tokenToOwner
  /\ call' = [op |-> "transfer", predecessor |-> predecessor,
              new_owner_id |-> new_owner_id, token_id |-> token_id, err |-> err]
  /\ UNCHANGED <<escrowAccess, storage, minted, ftVars>>

\* a check that answers true for any caller once the account has an escrow
check_access_any_caller(predecessor, account_id) ==
  LET err == IF predecessor # account_id THEN OK
             ELSE ERROR_CALLER_ID_DOES_NOT_MATCH_EXPECTATION
  IN
  /\ call' = [op |-> "check_access", predecessor |-> predecessor,
              account_id |-> account_id, err |-> err,
              ret |-> (err = OK /\ MapContains(escrowAccess, account_id))]
  /\ UNCHANGED <<nftVars, ftVars>>

check_access(predecessor, account_id) ==
  LET caller == predecessor
      err == IF caller # account_id THEN OK
             ELSE ERROR_CALLER_ID_DOES_NOT_MATCH_EXPECTATION
      ret == IF ~MapContains(escrowAccess, account_id) THEN FALSE
             ELSE escrowAccess[account_id] = caller
  IN
  /\ call' = [op |-> "check_access", predecessor |-> predecessor,
              account_id |-> account_id, err |-> err,
              ret |-> IF err = OK THEN ret ELSE FALSE]
  /\ UNCHANGED <<nftVars, ftVars>>

get_token_owner(token_id) ==
  LET err == IF MapContains(tokenToOwner, token_id) THEN OK ELSE ERROR_KEY_NOT_FOUND IN
  /\ call' = [op |-> "get_token_owner", token_id |-> token_id, err |-> err,
              ret |-> MapGet(tokenToOwner, token_id)]
  /\ UNCHANGED <<nftVars, ftVars>>

mint_to(owner_id) ==
  \E tokenId \in UninitTokenIds :
    LET currentSupply == getPrimitive(TOTAL_SUPPLY, 1)
        err == IF currentSupply <= MAX_SUPPLY THEN OK
               ELSE ERROR_MAXIMUM_TOKEN_LIMIT_REACHED
    IN
    /\ tokenToOwner' = IF err = OK THEN MapSet(tokenToOwner, tokenId, owner_id)
                                   ELSE tokenToOwner
    /\ storage' = IF err = OK THEN MapSet(storage, TOTAL_SUPPLY, tokenId + 1)
                              ELSE storage
    /\ minted' = IF err = OK THEN minted + 1 ELSE minted
    /\ call' = [op |-> "mint_to", owner_id |-> owner_id, err |-> err,
                ret |-> IF err = OK THEN tokenId ELSE 0]
    /\ UNCHANGED <<escrowAccess, ftVars>>

Next ==
  \/ \E p \in Accounts, e \in Accounts : grant_access(p, e)
  \/ \E p \in Accounts, e \in Accounts : revoke_access(p, e)
  \/ \E p \in Accounts, o \in Accounts, n \in Accounts, t \in TokenIds :
       transfer_from(p, o, n, t)
  \/ \E p \in Accounts, n \in Accounts, t \in TokenIds : transfer(p, n, t)
  \/ \E p \in Accounts, a \in Accounts : check_access(p, a)
  \/ \E t \in TokenIds : get_token_owner(t)
  \/ \E o \in Accounts : minted < MaxMints /\ mint_to(o)

Spec == Init /\ [][Next]_vars

\* every run of mint_to calls from the empty registry
NextMint == \E o \in Accounts : minted < MaxMintRun /\ mint_to(o)

SpecMint == Init /\ [][NextMint]_vars

(***************************************************************************)
(* The balance ledger: part_000, lines 17-219.  The sources hold no        *)
(* operation that issues balances, so the ledger starts with the           *)
(* MAX_SUPPLY units that ft_total_supply reports, held in any way by the   *)
(* holders (an account that holds nothing has no record).  carol is the    *)
(* third party of the calls: she holds nothing and is sent nothing.        *)
(***************************************************************************)
Holders == {alice, bob}
\* the ledger's own account, context.contractName
contractName == "ft"
Callers == Accounts \cup {contractName}
Deposits == {EXPECTED_DEPOSIT - 1, EXPECTED_DEPOSIT, EXPECTED_DEPOSIT + 1}
Amounts == 0..MaxAmount
\* what the runtime hands the resolution: the receiver's call chain failed,
\* or ft_on_transfer returned this many unused tokens
FAILED == "failed"
SUCCEEDED == "succeeded"
PromiseResults ==
  {[status |-> FAILED, unused |-> 0]} \cup
  {[status |-> SUCCEEDED, unused |-> u] : u \in 0..(MaxAmount + 1)}

RECURSIVE SumOver(_, _)
SumOver(S, b) ==
  IF S = {} THEN 0
  ELSE LET a == CHOOSE x \in S : TRUE IN b[a] + SumOver(S \ {a}, b)

Total(b) == SumOver(DOMAIN b, b)

InitFT ==
  /\ tokenToOwner = EmptyMap
  /\ escrowAccess = EmptyMap
  /\ storage = EmptyMap
  /\ \E b \in [Holders -> 0..MAX_SUPPLY] :
       /\ SumOver(Holders, b) = MAX_SUPPLY
       /\ balances = [a \in {x \in Holders : b[x] > 0} |-> b[a]]
  /\ promises = {}
  /\ minted = 0
  /\ call = [op |-> "init"]

\* the asserts without the check of the sender's balance
ft_transfer_err_funds_unchecked(sender, attachedDeposit, amount) ==
  IF attachedDeposit # EXPECTED_DEPOSIT THEN ERROR_DEPOSIT_DOES_NOT_MATCH_EXPECTATION
  ELSE OK

\* the asserts shared by ft_transfer and ft_transfer_call
ft_transfer_err(sender, attachedDeposit, amount) ==
  LET senderBalance == MapGetOr(balances, sender, 0) IN
  IF attachedDeposit # EXPECTED_DEPOSIT THEN ERROR_DEPOSIT_DOES_NOT_MATCH_EXPECTATION
  ELSE IF ~(senderBalance > amount) THEN ERROR_INSUFFICIENT_FUNDS
       ELSE OK

\* the receiver of the ft_transfer_call made just before this invocation (NULL
\* when the last invocation was not a successful ft_transfer_call): the account
\* whose ft_on_transfer the transfer was meant for, and which may call back in
\* before any resolution
notified ==
  IF call.op = "ft_transfer_call" /\ call.err = OK THEN call.receiver_id ELSE NULL

\* the two writes both operations make: both balances are read before either
\* is written
ft_move(sender, receiver_id, amount) ==
  LET senderBalance == MapGetOr(balances, sender, 0)
      receiverBalance == MapGetOr(balances, receiver_id, 0)
  IN MapSet(MapSet(balances, sender, senderBalance - amount),
            receiver_id, receiverBalance + amount)

ft_transfer(sender, attachedDeposit, receiver_id, amount) ==
  LET err == ft_transfer_err(sender, attachedDeposit, amount) IN
  /\ balances' = IF err = OK THEN ft_move(sender, receiver_id, amount) ELSE balances
  /\ call' = [op |-> "ft_transfer", sender |-> sender,
              attachedDeposit |-> attachedDeposit, receiver_id |-> receiver_id,
              amount |-> amount, err |-> err, notified |-> notified]
  /\ UNCHANGED <<nftVars, promises>>

\* ft_transfer_call ends after the two writes: it creates no promise and
\* returns nothing.  `before` keeps the balances the call started from.
ft_transfer_call(sender, attachedDeposit, receiver_id, amount) ==
  LET err == ft_transfer_err(sender, attachedDeposit, amount) IN
  /\ balances' = IF err = OK THEN ft_move(sender, receiver_id, amount) ELSE balances
  /\ promises' = promises
  /\ call' = [op |-> "ft_transfer_call", sender |-> sender,
              attachedDeposit |-> attachedDeposit, receiver_id |-> receiver_id,
              amount |-> amount, err |-> err, before |-> balances,
              notified |-> notified]
  /\ UNCHANGED nftVars

\* the body of ft_resolve_transfer is its one assert: it reads no promise
\* result, writes nothing and returns nothing
ft_resolve_transfer_err(predecessor, sender_id) ==
  IF predecessor = sender_id THEN OK
  ELSE ERROR_CALLER_ID_DOES_NOT_MATCH_EXPECTATION

ft_resolve_transfer(predecessor, result, sender_id, receiver_id, amount) ==
  LET err == ft_resolve_transfer_err(predecessor, sender_id) IN
  /\ call' = [op |-> "ft_resolve_transfer", predecessor |-> predecessor,
              result |-> result, sender_id |-> sender_id,
              receiver_id |-> receiver_id, amount |-> amount,
              err |-> err, ret |-> NULL]
  /\ UNCHANGED <<nftVars, ftVars>>

ft_total_supply ==
  /\ call' = [op |-> "ft_total_supply", err |-> OK, ret |-> MAX_SUPPLY]
  /\ UNCHANGED <<nftVars, ftVars>>

ft_balance_of(account_id) ==
  /\ call' = [op |-> "ft_balance_of", account_id |-> account_id, err |-> OK,
              ret |-> MapGet(balances, account_id)]
  /\ UNCHANGED <<nftVars, ftVars>>

\* ft_on_transfer is the receiving contract's method and has no body here;
\* the ledger's copy of mint_to (part_000:190-216) is the registry's mint_to
\* above and touches no balance.
NextFT ==
  \/ \E s \in Accounts, d \in Deposits, r \in Holders, a \in Amounts :
       ft_transfer(s, d, r, a) /\ Total(balances') <= MaxTotal
  \/ \E s \in Accounts, d \in Deposits, r \in Holders, a \in Amounts :
       ft_transfer_call(s, d, r, a) /\ Total(balances') <= MaxTotal
  \/ \E p \in Callers, res \in PromiseResults, s \in Accounts, r \in Holders,
        a \in Amounts : ft_resolve_transfer(p, res, s, r, a)
  \/ ft_total_supply
  \/ \E a \in Holders : ft_balance_of(a)

SpecFT == InitFT /\ [][NextFT]_vars

(***************************************************************************)
(* The properties checked.                                                 *)
(***************************************************************************)

\* C1 (as claimed): on a minted token transfer_from succeeds and sets the owner
\* to new_owner_id when owner_id is the recorded owner and the caller is that
\* owner or the owner's recorded escrow; it fails with the caller error for any
\* other caller and with the owner error when owner_id is not the recorded
\* owner; and a token's owner changes only in a call made by its owner or its
\* owner's escrow.
C1_Step ==
  /\ (call'.op = "transfer_from" /\ MapContains(tokenToOwner, call'.token_id)) =>
       LET t == call'.token_id
           owner == tokenToOwner[t]
           escrow == MapGet(escrowAccess, owner)
       IN /\ (call'.owner_id = owner /\ call'.predecessor \in {owner, escrow}) =>
               (call'.err = OK /\ tokenToOwner'[t] = call'.new_owner_id)
          /\ (call'.owner_id = owner /\ call'.predecessor \notin {owner, escrow}) =>
               (call'.err = ERROR_CALLER_ID_DOES_NOT_MATCH_EXPECTATION
                  /\ tokenToOwner' = tokenToOwner)
          /\ (call'.owner_id # owner) =>
               (call'.err = ERROR_OWNER_ID_DOES_NOT_MATCH_EXPECTATION
                  /\ tokenToOwner' = tokenToOwner)
  /\ \A t \in DOMAIN tokenToOwner :
       (t \in DOMAIN tokenToOwner' /\ tokenToOwner'[t] # tokenToOwner[t]) =>
         /\ call'.op \in {"transfer_from", "transfer"}
         /\ call'.predecessor \in
              {tokenToOwner[t], MapGet(escrowAccess, tokenToOwner[t])}

C1_OwnerChangesOnlyByOwnerOrEscrow == [][C1_Step]_vars

\* C2: on a minted token transfer succeeds only for the recorded owner; any
\* other caller, the owner's recorded escrow included, gets the not-owned error
\* and the ownership records stay as they were.
C2_Step ==
  (call'.op = "transfer" /\ MapContains(tokenToOwner, call'.token_id)) =>
    LET owner == tokenToOwner[call'.token_id] IN
    /\ (call'.err = OK) => (call'.predecessor = owner)
    /\ (call'.predecessor # owner) =>
         (call'.err = ERROR_TOKEN_NOT_OWNED_BY_CALLER /\ tokenToOwner' = tokenToOwner)

C2_TransferOnlyByOwner == [][C2_Step]_vars

\* C2 witness: the owner's recorded escrow called transfer and was refused
C2_EscrowRefused ==
  /\ call.op = "transfer"
  /\ call.err = ERROR_TOKEN_NOT_OWNED_BY_CALLER
  /\ MapContains(tokenToOwner, call.token_id)
  /\ call.predecessor = MapGet(escrowAccess, tokenToOwner[call.token_id])
  /\ call.predecessor # tokenToOwner[call.token_id]

\* C3 (as claimed): a successful ft_transfer, whoever the caller and the
\* receiver are, leaves the sum of all balances as it was.
C3_TransferKeepsTotal ==
  [][(call'.op = "ft_transfer" /\ call'.err = OK) =>
       Total(balances') = Total(balances)]_vars

\* C4 (as claimed): ft_transfer with an amount above the caller's balance fails
\* with the insufficient-funds error and changes no balance.
C4_Original ==
  [][(call'.op = "ft_transfer"
        /\ call'.amount > MapGetOr(balances, call'.sender, 0)) =>
       (call'.err = ERROR_INSUFFICIENT_FUNDS /\ balances' = balances)]_vars

\* C4 (amended): ft_transfer with an amount above the caller's balance fails and
\* changes no balance: with the insufficient-funds error when the attached
\* deposit is the expected one, with the deposit error otherwise.
C4_InsufficientFundsRejected ==
  [][(call'.op = "ft_transfer"
        /\ call'.amount > MapGetOr(balances, call'.sender, 0)) =>
       /\ balances' = balances
       /\ (call'.attachedDeposit = EXPECTED_DEPOSIT) =>
            call'.err = ERROR_INSUFFICIENT_FUNDS
       /\ (call'.attachedDeposit # EXPECTED_DEPOSIT) =>
            call'.err = ERROR_DEPOSIT_DOES_NOT_MATCH_EXPECTATION]_vars

\* C4 witness: a holder with a balance asked for more than it, with the
\* expected deposit, and was refused
C4_OverdraftRefused ==
  /\ call.op = "ft_transfer"
  /\ call.attachedDeposit = EXPECTED_DEPOSIT
  /\ MapGetOr(balances, call.sender, 0) > 0
  /\ call.amount > MapGetOr(balances, call.sender, 0)
  /\ call.err = ERROR_INSUFFICIENT_FUNDS

\* the step in which the runtime resolves the ft_transfer_call just made: the
\* ledger calls its own ft_resolve_transfer with that call's arguments
ResolvesLastTransferCall ==
  /\ call.op = "ft_transfer_call"
  /\ call.err = OK
  /\ call'.op = "ft_resolve_transfer"
  /\ call'.predecessor = contractName
  /\ call'.sender_id = call.sender
  /\ call'.receiver_id = call.receiver_id
  /\ call'.amount = call.amount

\* C5 (as claimed): when the receiver's handler succeeds and reports `unused`
\* tokens of the amount, the resolution leaves the sender at its balance before
\* the ft_transfer_call minus (amount - unused), the receiver at its balance
\* before plus (amount - unused), and returns amount - unused.
C5_ResolveRefundsUnused ==
  [][(/\ ResolvesLastTransferCall
      /\ call.sender # call.receiver_id
      /\ call'.result.status = SUCCEEDED
      /\ call'.result.unused <= call.amount) =>
       LET kept == call.amount - call'.result.unused IN
       /\ call'.err = OK
       /\ call'.ret # NULL
       /\ call'.ret = kept
       /\ MapGetOr(balances', call.sender, 0)
            = MapGetOr(call.before, call.sender, 0) - kept
       /\ MapGetOr(balances', call.receiver_id, 0)
            = MapGetOr(call.before, call.receiver_id, 0) + kept]_vars

\* C6 (as claimed): when the receiver's call chain fails, the resolution puts
\* the sender's and the receiver's balances back to what they were before the
\* ft_transfer_call.
C6_ResolveRollsBack ==
  [][(/\ ResolvesLastTransferCall
      /\ call'.result.status = FAILED) =>
       /\ call'.err = OK
       /\ MapGetOr(balances', call.sender, 0)
            = MapGetOr(call.before, call.sender, 0)
       /\ MapGetOr(balances', call.receiver_id, 0)
            = MapGetOr(call.before, call.receiver_id, 0)]_vars

\* C7 (as claimed): ft_resolve_transfer called by any account other than the
\* ledger's own fails with the caller error and changes no balance and no
\* pending call.
C7_ResolveOnlyBySelf ==
  [][(call'.op = "ft_resolve_transfer" /\ call'.predecessor # contractName) =>
       /\ call'.err = ERROR_CALLER_ID_DOES_NOT_MATCH_EXPECTATION
       /\ balances' = balances
       /\ promises' = promises]_vars

\* C8 (as claimed): every successful ft_transfer_call leaves one more pending
\* call, the receiver's notification with ft_resolve_transfer as its callback.
C8_TransferCallSchedulesResolve ==
  [][(call'.op = "ft_transfer_call" /\ call'.err = OK) =>
       \E p \in promises' \ promises :
         /\ promises' = promises \cup {p}
         /\ p.callback = "ft_resolve_transfer"]_vars

\* C9 (as claimed): from the empty registry the k-th successful mint_to returns
\* k, records its owner under that identifier, and leaves the owners of the
\* tokens minted before as they were.
C9_MintReturnsNextId ==
  [][(call'.op = "mint_to" /\ call'.err = OK /\ minted' = minted + 1) =>
       /\ call'.ret = minted + 1
       /\ MapGet(tokenToOwner', call'.ret) = call'.owner_id
       /\ \A t \in DOMAIN tokenToOwner : tokenToOwner'[t] = tokenToOwner[t]]_vars

\* C10 (as claimed): once MAX_SUPPLY mints have succeeded, every further
\* mint_to fails with the limit error and leaves the stored counter and the
\* ownership records as they were.
C10_MintBeyondMaxFails ==
  [][(minted >= MAX_SUPPLY /\ call'.op = "mint_to") =>
       /\ call'.err = ERROR_MAXIMUM_TOKEN_LIMIT_REACHED
       /\ storage' = storage
       /\ tokenToOwner' = tokenToOwner
       /\ minted' = minted]_vars

\* C11 (as claimed): from the empty registry exactly MAX_SUPPLY consecutive
\* mint_to calls succeed: a mint succeeds when fewer than MAX_SUPPLY have
\* succeeded before it, and fails with the limit error otherwise.
C11_ExactlyMaxSupplyMints ==
  [][(call'.op = "mint_to") =>
       /\ (minted < MAX_SUPPLY) => (call'.err = OK /\ minted' = minted + 1)
       /\ (minted >= MAX_SUPPLY) =>
            (call'.err = ERROR_MAXIMUM_TOKEN_LIMIT_REACHED /\ minted' = minted)]_vars

\* C12: grant_access(d) by an account records d as its escrow; the record of
\* an account changes only in that account's own grant_access or
\* revoke_access; and check_access(account) is refused for the account itself,
\* and for every other caller returns true exactly when the caller is the
\* recorded escrow (false when the account has no record).
C12_Step ==
  /\ (call'.op = "grant_access") =>
       /\ call'.err = OK
       /\ MapGet(escrowAccess', call'.predecessor) = call'.escrow_account_id
  /\ \A a \in Accounts :
       (MapGet(escrowAccess', a) # MapGet(escrowAccess, a)) =>
         /\ call'.op \in {"grant_access", "revoke_access"}
         /\ call'.predecessor = a
  /\ (call'.op = "check_access") =>
       /\ (call'.predecessor = call'.account_id) =>
            call'.err = ERROR_CALLER_ID_DOES_NOT_MATCH_EXPECTATION
       /\ (call'.predecessor # call'.account_id) =>
            /\ call'.err = OK
            /\ call'.ret = (MapGet(escrowAccess, call'.account_id) = call'.predecessor)

C12_CheckAccessNamesTheEscrow == [][C12_Step]_vars

\* C12 witness: an account has an escrow, and a caller that is neither the
\* account nor its escrow has just been told it has no access
C12_OtherCallerDenied ==
  /\ call.op = "check_access"
  /\ call.err = OK
  /\ call.ret = FALSE
  /\ MapContains(escrowAccess, call.account_id)
  /\ escrowAccess[call.account_id] \notin {call.predecessor, call.account_id}

\* C13: revoke_access never fails and leaves the caller without an escrow
\* record, touching nothing else (nothing at all when the caller had none);
\* an account gets a record again only by its own grant_access; and while an
\* account has no record, check_access on it answers false and transfer_from
\* on its tokens by anyone but the owner fails with the caller error.
C13_Step ==
  /\ (call'.op = "revoke_access") =>
       /\ call'.err = OK
       /\ ~MapContains(escrowAccess', call'.predecessor)
       /\ \A a \in Accounts \ {call'.predecessor} :
            MapGet(escrowAccess', a) = MapGet(escrowAccess, a)
       /\ ~MapContains(escrowAccess, call'.predecessor) =>
            escrowAccess' = escrowAccess
       /\ UNCHANGED <<tokenToOwner, storage, balances, promises>>
  /\ \A a \in Accounts :
       (~MapContains(escrowAccess, a) /\ MapContains(escrowAccess', a)) =>
         (call'.op = "grant_access" /\ call'.predecessor = a)
  /\ (call'.op = "check_access"
        /\ call'.predecessor # call'.account_id
        /\ ~MapContains(escrowAccess, call'.account_id)) =>
       (call'.err = OK /\ call'.ret = FALSE)
  /\ (call'.op = "transfer_from"
        /\ MapContains(tokenToOwner, call'.token_id)
        /\ tokenToOwner[call'.token_id] = call'.owner_id
        /\ ~MapContains(escrowAccess, call'.owner_id)
        /\ call'.predecessor # call'.owner_id) =>
       (call'.err = ERROR_CALLER_ID_DOES_NOT_MATCH_EXPECTATION
          /\ tokenToOwner' = tokenToOwner)

C13_RevokeEndsAccess == [][C13_Step]_vars

\* C13 witness: an account has just revoked the escrow it names, which it had
C13_EscrowRevoked ==
  /\ call.op = "revoke_access"
  /\ call.revoked = call.escrow_account_id
  /\ call.revoked # call.predecessor
  /\ ~MapContains(escrowAccess, call.predecessor)

\* C14: a successful transfer_from writes the ownership record of the token it
\* transfers and nothing else: every escrow record, every other token's owner
\* and the stored supply counter are as they were.
C14_Step ==
  (call'.op = "transfer_from" /\ call'.err = OK) =>
    /\ tokenToOwner' = MapSet(tokenToOwner, call'.token_id, call'.new_owner_id)
    /\ DOMAIN tokenToOwner' = DOMAIN tokenToOwner
    /\ \A t \in DOMAIN tokenToOwner \ {call'.token_id} :
         tokenToOwner'[t] = tokenToOwner[t]
    /\ escrowAccess' = escrowAccess
    /\ storage' = storage
    /\ minted' = minted

C14_TransferFromChangesOneRecord == [][C14_Step]_vars

\* C14 witness: the escrow of the previous owner has just moved a token to a
\* third account, and the previous owner's escrow record still names it
C14_EscrowMovedTokenAndStays ==
  /\ call.op = "transfer_from"
  /\ call.err = OK
  /\ call.predecessor # call.owner_id
  /\ call.new_owner_id \notin {call.owner_id, call.predecessor}
  /\ MapGet(tokenToOwner, call.token_id) = call.new_owner_id
  /\ MapGet(escrowAccess, call.owner_id) = call.predecessor

\* C15 (as claimed): the tokens with an ownership record are exactly the
\* identifiers 1..(number of successful mints); a token gets its record only in
\* mint_to and no record is ever deleted; get_token_owner and transfer_from on
\* an identifier without a record fail and create none.
C15_Step ==
  /\ DOMAIN tokenToOwner' = 1..minted'
  /\ (DOMAIN tokenToOwner' # DOMAIN tokenToOwner) =>
       (call'.op = "mint_to" /\ call'.err = OK)
  /\ DOMAIN tokenToOwner \subseteq DOMAIN tokenToOwner'
  /\ (call'.op \in {"get_token_owner", "transfer_from"}
        /\ ~MapContains(tokenToOwner, call'.token_id)) =>
       (call'.err = ERROR_KEY_NOT_FOUND /\ tokenToOwner' = tokenToOwner)

C15_RecordsAreTheMintedIds == [][C15_Step]_vars

\* C16 (as claimed): with the expected deposit, ft_transfer and
\* ft_transfer_call succeed for every amount up to and including the caller's
\* whole balance, and fail with the insufficient-funds error only for an amount
\* above the balance.
C16_Step ==
  (call'.op \in {"ft_transfer", "ft_transfer_call"}
     /\ call'.attachedDeposit = EXPECTED_DEPOSIT) =>
    LET balance == MapGetOr(balances, call'.sender, 0) IN
    /\ (call'.amount <= balance) => call'.err = OK
    /\ (call'.amount > balance) => call'.err = ERROR_INSUFFICIENT_FUNDS

C16_WholeBalanceCanBeSent == [][C16_Step]_vars

\* C17 (as claimed): ft_transfer of amount 0 with the expected deposit succeeds
\* for every caller, one with no balance included, and leaves every account's
\* balance as it was.
C17_Step ==
  (call'.op = "ft_transfer" /\ call'.amount = 0
     /\ call'.attachedDeposit = EXPECTED_DEPOSIT) =>
    /\ call'.err = OK
    /\ \A a \in Accounts : MapGetOr(balances', a, 0) = MapGetOr(balances, a, 0)

C17_ZeroTransferSucceeds == [][C17_Step]_vars

\* the smaller of two amounts
Min(a, b) == IF a <= b THEN a ELSE b

\* C18 (as claimed): whatever amount of unused tokens the receiver reports, the
\* resolution moves that amount clamped to [0, amount] back from the receiver
\* to the sender, so the sender ends with no more than it had before the
\* ft_transfer_call.
C18_Step ==
  (/\ ResolvesLastTransferCall
   /\ call.sender # call.receiver_id
   /\ call'.result.status = SUCCEEDED) =>
    LET refund == Min(call'.result.unused, call.amount) IN
    /\ MapGetOr(balances', call.sender, 0)
         = MapGetOr(balances, call.sender, 0) + refund
    /\ MapGetOr(balances', call.receiver_id, 0)
         = MapGetOr(balances, call.receiver_id, 0) - refund
    /\ MapGetOr(balances', call.sender, 0) <= MapGetOr(call.before, call.sender, 0)

C18_RefundIsClamped == [][C18_Step]_vars

\* C19: in every interleaving of ft_transfer, ft_transfer_call and
\* ft_resolve_transfer no balance is ever negative; a successful transfer
\* between two accounts debits the sender and credits the receiver the amount
\* once and touches no other balance; and every other invocation, a failed
\* one or a resolution, changes no balance.
C19_Step ==
  /\ \A a \in DOMAIN balances' : balances'[a] >= 0
  /\ (call'.op \in {"ft_transfer", "ft_transfer_call"} /\ call'.err = OK
        /\ call'.sender # call'.receiver_id) =>
       /\ MapGetOr(balances', call'.sender, 0)
            = MapGetOr(balances, call'.sender, 0) - call'.amount
       /\ MapGetOr(balances', call'.receiver_id, 0)
            = MapGetOr(balances, call'.receiver_id, 0) + call'.amount
       /\ \A a \in Accounts \ {call'.sender, call'.receiver_id} :
            MapGetOr(balances', a, 0) = MapGetOr(balances, a, 0)
  /\ (call'.op \notin {"ft_transfer", "ft_transfer_call"} \/ call'.err # OK) =>
       balances' = balances

C20_BalancesSumToTotalSupply ==
  (promises = {}) => (Total(balances) = MAX_SUPPLY)

\* the persisted total-supply counter: the value stored under TOTAL_SUPPLY,
\* no tokens while nothing is stored
supplyCounter == MapGetOr(storage, TOTAL_SUPPLY, 0)

\* C21: the persisted total-supply counter never decreases, never exceeds
\* MAX_SUPPLY, always equals the number of tokens minted so far, and only
\* mint_to changes it.
C21_Step ==
  /\ supplyCounter' >= supplyCounter
  /\ supplyCounter' <= MAX_SUPPLY
  /\ supplyCounter' = minted'
  /\ (call'.op # "mint_to") => (supplyCounter' = supplyCounter)

C21_CounterCountsMintedTokens == [][C21_Step]_vars

\* C22: each account has at most one active delegate.  A grant_access by an
\* account that already has a delegate replaces it: afterwards the account's
\* record names the new delegate and no longer the old one.  In every state,
\* check_access on an account answers true to its recorded delegate and
\* false to every other caller, and a transfer_from on a token of the account
\* succeeds when the recorded delegate calls and fails with the caller error
\* when an account that is neither the owner nor the recorded delegate calls.
C22_Step ==
  /\ (call'.op = "grant_access") =>
       /\ MapGet(escrowAccess', call'.predecessor) = call'.escrow_account_id
       /\ (call'.replaced # call'.escrow_account_id) =>
            MapGet(escrowAccess', call'.predecessor) # call'.replaced
       /\ call'.replaced = MapGet(escrowAccess, call'.predecessor)
  /\ (call'.op = "check_access" /\ call'.predecessor # call'.account_id) =>
       (call'.ret = (MapGet(escrowAccess, call'.account_id) = call'.predecessor))
  /\ (/\ call'.op = "transfer_from"
      /\ MapGet(tokenToOwner, call'.token_id) = call'.owner_id) =>
       /\ (call'.predecessor = MapGet(escrowAccess, call'.owner_id)) =>
            /\ call'.err = OK
            /\ MapGet(tokenToOwner', call'.token_id) = call'.new_owner_id
       /\ (call'.predecessor \notin
             {call'.owner_id, MapGet(escrowAccess, call'.owner_id)}) =>
            /\ call'.err = ERROR_CALLER_ID_DOES_NOT_MATCH_EXPECTATION
            /\ tokenToOwner' = tokenToOwner

C22_OneDelegatePerAccount == [][C22_Step]_vars

\* C22 witness: an account that owns a token and had a delegate has just
\* granted access to another account, which is now its only delegate
C22_DelegateReplaced ==
  /\ call.op = "grant_access"
  /\ call.replaced \notin {NULL, call.escrow_account_id, call.predecessor}
  /\ call.escrow_account_id # call.predecessor
  /\ MapGet(escrowAccess, call.predecessor) = call.escrow_account_id
  /\ \E t \in DOMAIN tokenToOwner : tokenToOwner[t] = call.predecessor

====
